---- MODULE Spec2Model ----
(***************************************************************************)
(* Model of the Item Store Service of flask_api (app/routes.py and         *)
(* app/__init__.py): one module-level list `items` of {id, name} records   *)
(* and the six request handlers that read and mutate it.                   *)
(*                                                                         *)
(* Spec      one request at a time: every handler runs to completion.      *)
(* SpecConc  two worker threads whose handlers interleave at the level of  *)
(*           their individual reads and writes of the global `items`.      *)
(***************************************************************************)
EXTENDS Integers, Sequences, FiniteSets, TLC

\* ------------------------------------------------------------------ bounds

\* Successful POSTs in one behaviour of Spec (bounds the `created` counter).
MaxCreated == 4

\* Requests served in one behaviour of SpecConc (both threads together).
MaxReqs == 4

\* ------------------------------------------------------------ input domains

\* Values a client sends under the key 'name'.
Names == {"apple", "banana"}

\* Keys of a JSON object body / elements of a JSON array body.
Keys == {"name", "other"}

\* Values of a JSON number body: one falsy, one truthy.
Nums == {0, 5}

NoName == ""

\* What request.get_json() hands to a handler.  kind "none" is None (no JSON
\* body); "object" is a dict with the keys `keys` (data['name'] = name when
\* "name" is a key); "array" is a list of strings with the elements `keys`;
\* "number" is the JSON number num.
Bodies ==
    {[kind |-> "none", keys |-> {}, name |-> NoName, num |-> 0]}
    \cup {[kind |-> "object", keys |-> ks, name |-> NoName, num |-> 0] :
             ks \in SUBSET {"other"}}
    \cup {[kind |-> "object", keys |-> ks \cup {"name"}, name |-> n, num |-> 0] :
             ks \in SUBSET {"other"}, n \in Names}
    \cup {[kind |-> "array", keys |-> ks, name |-> NoName, num |-> 0] :
             ks \in SUBSET Keys}
    \cup {[kind |-> "number", keys |-> {}, name |-> NoName, num |-> v] :
             v \in Nums}

\* Path parameter <int:item_id>: every id the store can hold, 0, and one more.
ItemIds == 0 .. (MaxCreated + 1)

\* ------------------------------------------------------------------- state

VARIABLES
    items,      \* the module-level list: a sequence of [id, name]
    created,    \* history: number of POSTs answered 201 since service start
    req,        \* the request served last: [op, id, data]
    resp,       \* its response: [status, item, list, text]
    pc,         \* SpecConc: per thread, the statement it executes next
    treq,       \* SpecConc: per thread, the request it is serving
    local,      \* SpecConc: per thread, the handler's locals: the dict `item`
                \* built by add_item, the list built by delete_item
    tresp,      \* SpecConc: per thread, the response of its last request
    round       \* SpecConc: history: the store when the current round of
                \* requests began, whether two requests overlapped in it, the
                \* requests begun so far, the anomalies observed so far

vars == <<items, created, req, resp, pc, treq, local, tresp, round>>

concVars == <<pc, treq, local, tresp, round>>

\* ------------------------------------------------------ Python expressions

NoItem == [id |-> 0, name |-> NoName]
NoData == [kind |-> "none", keys |-> {}, name |-> NoName, num |-> 0]

\* bool(data): None, 0, {} and [] are falsy.
Truthy(data) ==
    CASE data.kind = "none" -> FALSE
      [] data.kind = "number" -> data.num # 0
      [] OTHER -> data.keys # {}

\* `'name' in data` raises TypeError when data is not a container.
InRaises(data) == data.kind = "number"

\* `'name' in data` on a dict (key test) or a list (element test).
HasName(data) == "name" \in data.keys

\* data['name'] raises TypeError unless data is a dict.
SubscriptRaises(data) == data.kind # "object"

\* next((item for item in items if item['id'] == item_id), None): the index of
\* the first match, 0 for None.
FirstMatch(its, item_id) ==
    IF \E k \in 1..Len(its) : its[k].id = item_id
    THEN CHOOSE k \in 1..Len(its) :
            /\ its[k].id = item_id
            /\ \A j \in 1..(k-1) : its[j].id # item_id
    ELSE 0

\* The indices the list comprehension [itm for itm in items if itm['id'] != item_id]
\* keeps, in iteration order.
RECURSIVE Kept(_, _, _)
Kept(its, item_id, k) ==
    IF k > Len(its) THEN << >>
    ELSE IF its[k].id # item_id
         THEN <<k>> \o Kept(its, item_id, k + 1)
         ELSE Kept(its, item_id, k + 1)

Pick(s, idx) == [k \in 1..Len(idx) |-> s[idx[k]]]

\* Variant of NewId without the + 1.
NewIdOffByOne(its) == Len(its)

\* 'id': len(items) + 1
NewId(its) == Len(its) + 1

\* items.append(item)
ListAppend(its, item) == Append(its, item)

Reverse(s) == [k \in 1..Len(s) |-> s[Len(s) + 1 - k]]

\* Variant of Filtered that builds the list back to front.
FilteredReversed(its, item_id) == Pick(its, Reverse(Kept(its, item_id, 1)))

\* [itm for itm in items if itm['id'] != item_id]
Filtered(its, item_id) == Pick(its, Kept(its, item_id, 1))

\* Variant of SetName that renames every dict of the list.
SetNameEverywhere(its, k, n) == [j \in 1..Len(its) |-> [its[j] EXCEPT !.name = n]]

\* item['name'] = data['name'] on the dict found at index k
SetName(its, k, n) == [its EXCEPT ![k].name = n]

\* --------------------------------------------------------------- responses

Response(status, item, list, text) ==
    [status |-> status, item |-> item, list |-> list, text |-> text]

BadRequest == Response(400, NoItem, << >>, "Name is required")
ItemNotFound == Response(404, NoItem, << >>, "Item not found")
\* app.errorhandler(500): what Flask turns an uncaught TypeError into.
InternalError == Response(500, NoItem, << >>, "Internal server error")

Result(store, response) == [store |-> store, resp |-> response]

\* ---------------------------------------------------------------- handlers
\* Each handler as a function of the store and its inputs, giving the store
\* it leaves and the response it returns.

home(its) == Result(its, Response(200, NoItem, << >>, "Welcome to the Flask API!"))

get_items(its) == Result(its, Response(200, NoItem, its, ""))

add_item(its, data) ==
    IF ~Truthy(data) THEN Result(its, BadRequest)
    ELSE IF InRaises(data) THEN Result(its, InternalError)
    ELSE IF ~HasName(data) THEN Result(its, BadRequest)
    ELSE IF SubscriptRaises(data) THEN Result(its, InternalError)
    ELSE LET item == [id |-> NewId(its), name |-> data.name]
         IN  Result(ListAppend(its, item), Response(201, item, << >>, ""))

get_item(its, item_id) ==
    LET k == FirstMatch(its, item_id)
    IN  IF k # 0 THEN Result(its, Response(200, its[k], << >>, ""))
        ELSE Result(its, ItemNotFound)

update_item(its, item_id, data) ==
    IF ~Truthy(data) THEN Result(its, BadRequest)
    ELSE IF InRaises(data) THEN Result(its, InternalError)
    ELSE IF ~HasName(data) THEN Result(its, BadRequest)
    ELSE LET k == FirstMatch(its, item_id)
         IN  IF k # 0
             THEN IF SubscriptRaises(data) THEN Result(its, InternalError)
                  ELSE LET new == SetName(its, k, data.name)
                       IN  Result(new, Response(200, new[k], << >>, ""))
             ELSE Result(its, ItemNotFound)

delete_item(its, item_id) ==
    LET k == FirstMatch(its, item_id)
    IN  IF k # 0
        THEN Result(Filtered(its, item_id), Response(200, NoItem, << >>, "Item deleted"))
        ELSE Result(its, ItemNotFound)

\* ------------------------------------------------------- serial state machine

Request(op, id, data) == [op |-> op, id |-> id, data |-> data]

NoRequest == Request("NONE", 0, NoData)
NoResponse == Response(0, NoItem, << >>, "")
NoLocal == [item |-> NoItem, new |-> << >>]
NoRound == [start |-> << >>, overlap |-> FALSE, served |-> 0, seen |-> {}]

Threads == {1, 2}

ConcIdle ==
    /\ pc = [t \in Threads |-> "idle"]
    /\ treq = [t \in Threads |-> NoRequest]
    /\ local = [t \in Threads |-> NoLocal]
    /\ tresp = [t \in Threads |-> NoResponse]
    /\ round = NoRound

Init ==
    /\ items = << >>
    /\ created = 0
    /\ req = NoRequest
    /\ resp = NoResponse
    /\ ConcIdle

Home ==
    /\ req' = Request("HOME", 0, NoData)
    /\ resp' = home(items).resp
    /\ items' = home(items).store
    /\ UNCHANGED <<created, concVars>>

GetItems ==
    /\ req' = Request("LIST", 0, NoData)
    /\ resp' = get_items(items).resp
    /\ items' = get_items(items).store
    /\ UNCHANGED <<created, concVars>>

AddItem(data) ==
    /\ add_item(items, data).resp.status = 201 => created < MaxCreated
    /\ req' = Request("POST", 0, data)
    /\ resp' = add_item(items, data).resp
    /\ items' = add_item(items, data).store
    /\ created' = IF add_item(items, data).resp.status = 201
                  THEN created + 1
                  ELSE created
    /\ UNCHANGED concVars

GetItem(item_id) ==
    /\ req' = Request("GET", item_id, NoData)
    /\ resp' = get_item(items, item_id).resp
    /\ items' = get_item(items, item_id).store
    /\ UNCHANGED <<created, concVars>>

UpdateItem(item_id, data) ==
    /\ req' = Request("PUT", item_id, data)
    /\ resp' = update_item(items, item_id, data).resp
    /\ items' = update_item(items, item_id, data).store
    /\ UNCHANGED <<created, concVars>>

DeleteItem(item_id) ==
    /\ req' = Request("DELETE", item_id, NoData)
    /\ resp' = delete_item(items, item_id).resp
    /\ items' = delete_item(items, item_id).store
    /\ UNCHANGED <<created, concVars>>

Next ==
    \/ Home
    \/ GetItems
    \/ \E data \in Bodies : AddItem(data)
    \/ \E item_id \in ItemIds : GetItem(item_id)
    \/ \E item_id \in ItemIds, data \in Bodies : UpdateItem(item_id, data)
    \/ \E item_id \in ItemIds : DeleteItem(item_id)

Spec == Init /\ [][Next]_vars

\* -------------------------------------------------- two interleaved threads
\* Each thread serves POST /items and DELETE /items/<id> requests; one action
\* is one access of a handler to the global `items` (or its validation, which
\* touches no shared state).  items.append is one atomic list operation; the
\* list comprehension of delete_item reads the list it finds and the
\* assignment `items = ...` replaces the global afterwards.  A round is a
\* maximal group of requests begun while some request is still unanswered or
\* not yet collected; EndRound collects the answers.

Other(t) == CHOOSE u \in Threads : u # t

Running(t) == pc[t] \notin {"idle", "done"}

\* Bodies sent in SpecConc: no body, {"name": n}, and the array ["name"].
ConcBodies ==
    {b \in Bodies : b.kind = "none" \/ b.keys = {"name"}}

\* Ids deleted in SpecConc.
ConcIds == 1..2

ConcRequests ==
    {Request("POST", 0, data) : data \in ConcBodies}
    \cup {Request("DELETE", item_id, NoData) : item_id \in ConcIds}

\* What the handler of request r makes of store s when nothing interleaves.
Handle(s, r) ==
    IF r.op = "POST" THEN add_item(s, r.data) ELSE delete_item(s, r.id)

\* Request ra served completely, then rb, from store s.
SerialOrder(s, ra, rb) ==
    LET a == Handle(s, ra)
        b == Handle(a.store, rb)
    IN  [store |-> b.store, first |-> a.resp, second |-> b.resp]

BothDone == \A t \in Threads : pc[t] = "done"

\* The store and the two answers are those of one of the two serial orders
\* of the round's two requests.
Serializable ==
    \/ SerialOrder(round.start, treq[1], treq[2])
          = [store |-> items, first |-> tresp[1], second |-> tresp[2]]
    \/ SerialOrder(round.start, treq[2], treq[1])
          = [store |-> items, first |-> tresp[2], second |-> tresp[1]]

\* Both requests of the round are POSTs answered 201 with the same id.
SameId ==
    /\ BothDone
    /\ \A t \in Threads : treq[t].op = "POST" /\ tresp[t].status = 201
    /\ tresp[1].item.id = tresp[2].item.id

\* A POST of the round was answered 201 and its item is not in the store,
\* the other request being a DELETE, answered 200, of a different id.
LostPost ==
    /\ BothDone
    /\ \E t \in Threads :
          /\ treq[t].op = "POST" /\ tresp[t].status = 201
          /\ treq[Other(t)].op = "DELETE" /\ tresp[Other(t)].status = 200
          /\ treq[Other(t)].id # tresp[t].item.id
          /\ \A k \in 1..Len(items) : items[k] # tresp[t].item

Anomalies ==
    (IF SameId /\ ~Serializable THEN {"same_id"} ELSE {})
    \cup (IF LostPost /\ ~Serializable THEN {"lost_post"} ELSE {})

Finish(t, response) ==
    /\ tresp' = [tresp EXCEPT ![t] = response]
    /\ pc' = [pc EXCEPT ![t] = "done"]

Begin(t, r) ==
    /\ pc[t] = "idle"
    /\ round.served < MaxReqs
    /\ pc' = [pc EXCEPT ![t] = IF r.op = "POST" THEN "add_validate" ELSE "del_lookup"]
    /\ treq' = [treq EXCEPT ![t] = r]
    /\ round' = [round EXCEPT
                    !.start = IF pc[Other(t)] = "idle" THEN items ELSE @,
                    !.overlap = @ \/ Running(Other(t)),
                    !.served = @ + 1]
    /\ UNCHANGED <<items, local, tresp, created, req, resp>>

\* add_item, lines 20-22: data = request.get_json() and the test of data.
AddValidate(t) ==
    /\ pc[t] = "add_validate"
    /\ IF ~Truthy(treq[t].data) THEN Finish(t, BadRequest)
       ELSE IF InRaises(treq[t].data) THEN Finish(t, InternalError)
       ELSE IF ~HasName(treq[t].data) THEN Finish(t, BadRequest)
       ELSE /\ pc' = [pc EXCEPT ![t] = "add_build"]
            /\ UNCHANGED tresp
    /\ UNCHANGED <<items, treq, local, round, created, req, resp>>

\* add_item, lines 23-26: the dict is built from len(items) as it is now.
AddBuild(t) ==
    /\ pc[t] = "add_build"
    /\ IF SubscriptRaises(treq[t].data)
       THEN /\ Finish(t, InternalError)
            /\ UNCHANGED local
       ELSE /\ local' = [local EXCEPT ![t].item =
                            [id |-> NewId(items), name |-> treq[t].data.name]]
            /\ pc' = [pc EXCEPT ![t] = "add_append"]
            /\ UNCHANGED tresp
    /\ UNCHANGED <<items, treq, round, created, req, resp>>

\* add_item, lines 27-28: items.append(item) and the 201 answer.
AddAppend(t) ==
    /\ pc[t] = "add_append"
    /\ items' = ListAppend(items, local[t].item)
    /\ Finish(t, Response(201, local[t].item, << >>, ""))
    /\ UNCHANGED <<treq, local, round, created, req, resp>>

\* delete_item, lines 53-54 and 57-58: the lookup and the 404 answer.
DelLookup(t) ==
    /\ pc[t] = "del_lookup"
    /\ IF FirstMatch(items, treq[t].id) # 0
       THEN /\ pc' = [pc EXCEPT ![t] = "del_filter"]
            /\ UNCHANGED tresp
       ELSE Finish(t, ItemNotFound)
    /\ UNCHANGED <<items, treq, local, round, created, req, resp>>

\* delete_item, line 55, right-hand side: the new list is built from the
\* global as it is now.
DelFilter(t) ==
    /\ pc[t] = "del_filter"
    /\ local' = [local EXCEPT ![t].new = Filtered(items, treq[t].id)]
    /\ pc' = [pc EXCEPT ![t] = "del_store"]
    /\ UNCHANGED <<items, treq, tresp, round, created, req, resp>>

\* Variant of DelStore without `global items`: the assignment binds a local
\* name and the module-level list stays as it was.
DelStoreLocalOnly(t) ==
    /\ pc[t] = "del_store"
    /\ Finish(t, Response(200, NoItem, << >>, "Item deleted"))
    /\ UNCHANGED <<items, treq, local, round, created, req, resp>>

\* delete_item, lines 55-56: the global is replaced, and the 200 answer.
DelStore(t) ==
    /\ pc[t] = "del_store"
    /\ items' = local[t].new
    /\ Finish(t, Response(200, NoItem, << >>, "Item deleted"))
    /\ UNCHANGED <<treq, local, round, created, req, resp>>

\* The answers of the round are collected and both threads wait again.
EndRound ==
    /\ \A t \in Threads : ~Running(t)
    /\ \E t \in Threads : pc[t] = "done"
    /\ pc' = [t \in Threads |-> "idle"]
    /\ treq' = [t \in Threads |-> NoRequest]
    /\ tresp' = [t \in Threads |-> NoResponse]
    /\ local' = [t \in Threads |-> NoLocal]
    /\ round' = [round EXCEPT !.start = << >>, !.overlap = FALSE,
                              !.seen = @ \cup Anomalies]
    /\ UNCHANGED <<items, created, req, resp>>

NextConc ==
    \/ \E t \in Threads, r \in ConcRequests : Begin(t, r)
    \/ \E t \in Threads : AddValidate(t)
    \/ \E t \in Threads : AddBuild(t)
    \/ \E t \in Threads : AddAppend(t)
    \/ \E t \in Threads : DelLookup(t)
    \/ \E t \in Threads : DelFilter(t)
    \/ \E t \in Threads : DelStore(t)
    \/ EndRound

SpecConc == Init /\ [][NextConc]_vars

\* ------------------------------------------------------------ claim helpers

Present(its, item_id) == \E k \in 1..Len(its) : its[k].id = item_id

\* The request body carries the key 'name': a JSON object with that key.
CarriesName(data) == data.kind = "object" /\ "name" \in data.keys

\* `new` is `old` with exactly the element at index k removed.
RemovedAt(old, new, k) ==
    /\ Len(new) = Len(old) - 1
    /\ \A j \in 1..(k-1) : new[j] = old[j]
    /\ \A j \in k..Len(new) : new[j] = old[j + 1]

\* ------------------------------------------------------------------ claims

\* C1: in every state reachable by serial POST, PUT and DELETE requests from
\* the empty store, no two items of the store have the same id.
C1_UniqueIds ==
    \A j, k \in 1..Len(items) : j # k => items[j].id # items[k].id

\* C2: the id a successful POST assigns equals the number of items ever
\* successfully created before it, plus one (`created` already counts this
\* POST in the state after it).
C2_IdIsCreatedCount ==
    (req.op = "POST" /\ resp.status = 201) => resp.item.id = created

\* C3: a successful POST returns the item whose id is the store length before
\* the POST plus one, which is the store length after it, and appends that item
\* at the end of the store; as long as no DELETE has removed an item (every
\* created item is still stored) the ids in the store are 1, 2, 3, ... in order.
C3_IdIsLength ==
    /\ [][(req'.op = "POST" /\ resp'.status = 201) =>
            /\ resp'.item.id = Len(items) + 1
            /\ resp'.item.id = Len(items')
            /\ resp'.item.name = req'.data.name
            /\ items' = Append(items, resp'.item)]_vars
    /\ [](created = Len(items) => \A k \in 1..Len(items) : items[k].id = k)

\* C3 witness: a POST answered 201 in a store of three items from which an
\* earlier DELETE has removed one.
C3_Witness ==
    /\ req.op = "POST" /\ resp.status = 201
    /\ Len(items) = 3 /\ created > Len(items)
    /\ items[Len(items)] = resp.item

\* C4: a GET /items/i served right after the POST that returned id i with
\* name n answers 200 with that very item, whose name is n.
C4_GetAfterPost ==
    [][(/\ req.op = "POST" /\ resp.status = 201
        /\ req'.op = "GET" /\ req'.id = resp.item.id) =>
            /\ resp'.status = 200
            /\ resp'.item = resp.item
            /\ resp'.item.name = req.data.name]_vars

\* C5: a DELETE of a present id answers 200, removes exactly one item keeping
\* all others in order, and a GET of that id then answers 404; a DELETE of an
\* absent id answers 404 and leaves the store unchanged.
C5_DeleteRemovesOne ==
    [][req'.op = "DELETE" =>
        IF Present(items, req'.id)
        THEN /\ resp'.status = 200
             /\ \E k \in 1..Len(items) :
                   items[k].id = req'.id /\ RemovedAt(items, items', k)
             /\ get_item(items', req'.id).resp.status = 404
        ELSE /\ resp'.status = 404
             /\ items' = items]_vars

\* C6: a PUT of a present id that carries a name n answers 200 with the item
\* {id, n}, gives the item the lookup finds (the first with that id) the name
\* n, and leaves every id, the length, the order and every other item as they
\* were; a PUT of an absent id that carries a name answers 404 and leaves the
\* store unchanged.
C6_PutFrame ==
    [][(req'.op = "PUT" /\ CarriesName(req'.data)) =>
        IF Present(items, req'.id)
        THEN /\ resp'.status = 200
             /\ resp'.item = [id |-> req'.id, name |-> req'.data.name]
             /\ Len(items') = Len(items)
             /\ \A k \in 1..Len(items) : items'[k].id = items[k].id
             /\ \E k \in 1..Len(items) :
                   /\ items[k].id = req'.id
                   /\ \A j \in 1..(k-1) : items[j].id # req'.id
                   /\ items'[k].name = req'.data.name
                   /\ \A j \in 1..Len(items) : j # k => items'[j] = items[j]
        ELSE /\ resp'.status = 404
             /\ items' = items]_vars

\* C6 witness: a PUT answered 200 in a store that holds the renamed item and
\* another item with a different name.
C6_Witness ==
    /\ req.op = "PUT" /\ resp.status = 200
    /\ \E j, k \in 1..Len(items) :
          j # k /\ items[k] = resp.item /\ items[j].name # resp.item.name

\* C7: a POST whose body is missing, empty, or lacks the key name answers 400
\* and leaves the store unchanged.
C7_PostWithoutName ==
    [][(req'.op = "POST" /\ ~CarriesName(req'.data)) =>
            (resp'.status = 400 /\ items' = items)]_vars

\* C7, for the bodies the handler's test covers (None, a falsy value, a JSON
\* object or array without 'name'): 400 and an unchanged store.
C7_PostRejected ==
    [][(req'.op = "POST" /\ (~Truthy(req'.data) \/ (~InRaises(req'.data) /\ ~HasName(req'.data)))) =>
            (resp'.status = 400 /\ items' = items)]_vars

\* C7: no POST other than one answered 201 changes the store.
C7_PostFrame ==
    [][(req'.op = "POST" /\ resp'.status # 201) => items' = items]_vars

\* C8: GET /items answers 200 with exactly the store; HOME, LIST and GET leave
\* the store unchanged; and the store stays in creation order: a POST only
\* appends at the end, a PUT keeps every position's id, a DELETE keeps the
\* surviving items in their order.
C8_ListInOrder ==
    /\ [](req.op = "LIST" => (resp.status = 200 /\ resp.list = items))
    /\ [][req'.op \in {"HOME", "LIST", "GET"} => items' = items]_vars
    /\ [][req'.op = "POST" =>
            (items' = items \/ (Len(items') = Len(items) + 1
                                /\ SubSeq(items', 1, Len(items)) = items))]_vars
    /\ [][req'.op = "PUT" =>
            (Len(items') = Len(items)
             /\ \A k \in 1..Len(items) : items'[k].id = items[k].id)]_vars
    /\ [][req'.op = "DELETE" =>
            items' = SelectSeq(items, LAMBDA it : it.id # req'.id)]_vars

\* C8 witness: a listing of two or more items after a DELETE removed one.
C8_Witness ==
    /\ req.op = "LIST" /\ resp.status = 200
    /\ Len(resp.list) >= 2 /\ created > Len(items)

\* C10: a PUT whose body is missing, empty, or lacks the key name answers 400,
\* whether or not the id exists, and leaves the store unchanged.
C10_PutWithoutName ==
    [][(req'.op = "PUT" /\ ~CarriesName(req'.data)) =>
            (resp'.status = 400 /\ items' = items)]_vars

\* C10, for the bodies the handler's test covers: 400 for present and absent
\* ids alike, and an unchanged store.
C10_PutRejected ==
    [][(req'.op = "PUT" /\ (~Truthy(req'.data) \/ (~InRaises(req'.data) /\ ~HasName(req'.data)))) =>
            (resp'.status = 400 /\ items' = items)]_vars

\* C9: with two threads, a round of two requests that did not overlap leaves
\* the store and the answers of one of the two serial orders; rounds whose
\* requests interleave reach outcomes of no serial order (the witness): two
\* POSTs answered 201 with the same id, and a POST answered 201 whose item a
\* concurrent DELETE of another id dropped from the store.
C9_SerialUnlessOverlapped ==
    (BothDone /\ ~round.overlap) => Serializable

\* C9 witness: a round that ends in LostPost with no serial order producing
\* it, after an earlier round ended in SameId with no serial order producing it.
C9_Witness ==
    /\ LostPost /\ ~Serializable /\ round.overlap
    /\ "same_id" \in round.seen

====
